---- MODULE Spec2Model ----
(***************************************************************************)
(* Session & Relay Engine of the two-player emulator link server:          *)
(* the Room Registry (backend/room_manager.py, backend/models.py), the     *)
(* Transport Connection Table and Relay Dispatcher                         *)
(* (backend/websocket_handler.py) and the transport endpoint               *)
(* (backend/server.py).                                                    *)
(*                                                                         *)
(* The server runs on one asyncio event loop: a coroutine is only          *)
(* suspended at an await.  No Registry method contains an await            *)
(* (remove_room is declared async but never suspends), so every Registry   *)
(* method is one atomic step.  The only awaits of the dispatcher are the   *)
(* websocket.send_text calls; every Registry mutation of a handler comes   *)
(* before its first send, so the Registry states that other tasks can      *)
(* observe are exactly the states between the actions below.  A send is    *)
(* modelled as completing at its await.                                    *)
(*                                                                         *)
(* Identifiers: Player.id is a uuid4 and Room.id a uuid4 prefix; both are  *)
(* modelled as fresh, i.e. never equal to an id that is still referenced   *)
(* anywhere in the state.                                                  *)
(***************************************************************************)
EXTENDS Integers, Sequences, FiniteSets, TLC

VARIABLES
    rooms,               \* RoomManager.rooms: room id -> Room
    player_to_room,      \* RoomManager.player_to_room: player id -> room id
    socket_to_player,    \* RoomManager.socket_to_player, an insertion-ordered dict
    active_connections,  \* WebSocketManager.active_connections (its key set)
    open,                \* socket ids whose websocket_endpoint loop is running
    broken,              \* open sockets whose send_text raises
    now,                 \* datetime.utcnow(), in hours
    ret,                 \* what the last operation returned
    out,                 \* the send_message calls of the last operation, in order
    rt,                  \* pending BindConnection/UnbindConnection round trip
    sending,             \* per handler task: the socket its send_text is awaiting on
    cleanup_task         \* RoomManager._cleanup_task and where the task stands

vars == <<rooms, player_to_room, socket_to_player, active_connections, open,
          broken, now, ret, out, rt, sending, cleanup_task>>

(* ------------------------------ bounds --------------------------------- *)
MaxPlayers == 3
MaxBoundPlayers == 2
MaxRooms == 2
MaxSockets == 2
MaxTime == 2
MaxBlobs == 2

PlayerIds == 1..MaxPlayers
SocketIds == 1..MaxSockets
RoomNumbers == 1..MaxRooms
Blobs == 1..MaxBlobs

(* --------------------------- program constants -------------------------- *)
max_players == 2
TTL == 1

NoPlayer == 0
NoSocket == 0
NoRoom == <<>>
NoSave == 0

\* A room code as a client may spell it: the stored code is upper case.
RoomId(n) == <<"U", n>>
LowerSpelling(n) == <<"l", n>>
RoomIds == {RoomId(n) : n \in RoomNumbers}
RoomSpellings == RoomIds \cup {LowerSpelling(n) : n \in RoomNumbers}
\* str.upper() on a room code
Upper(code) == IF code = NoRoom THEN NoRoom ELSE <<"U", code[2]>>

PlayerStatus == {"connecting", "connected", "ready", "playing", "disconnected"}

(* ----------------------------- dict helpers ----------------------------- *)
Put(d, k, v) == [x \in (DOMAIN d) \cup {k} |-> IF x = k THEN v ELSE d[x]]
Del(d, k) == [x \in (DOMAIN d) \ {k} |-> d[x]]
EmptyDict == [x \in {} |-> 0]

\* the insertion-ordered dict socket_to_player, as a sequence of <<key, value>>
OKeys(od) == {od[i][1] : i \in DOMAIN od}
OGet(od, k) ==
    IF k \in OKeys(od)
    THEN od[CHOOSE i \in DOMAIN od : od[i][1] = k][2]
    ELSE NoPlayer
\* od[k] = v: an existing key keeps its position, a new key goes last
OPut(od, k, v) ==
    IF k \in OKeys(od)
    THEN [i \in DOMAIN od |-> IF od[i][1] = k THEN <<k, v>> ELSE od[i]]
    ELSE Append(od, <<k, v>>)
ODel(od, k) == SelectSeq(od, LAMBDA e : e[1] # k)

Min(S) == CHOOSE x \in S : \A y \in S : x <= y

(* ------------------------------ models.py ------------------------------- *)
\* Player(...): a new player object
Player(id, is_host, status) ==
    [id |-> id, is_host |-> is_host, status |-> status, socket_id |-> NoSocket,
     save_state |-> NoSave]

\* Room(): a new room object, its host_id unset until the first add_player
\* sets it.  Whether the constructor accepts the call create_room makes is
\* RoomValidates, which create_room_call applies.
Room(id, t) ==
    [id |-> id, host_id |-> NoPlayer, players |-> <<>>, is_active |-> TRUE,
     link_cable_connected |-> FALSE, created_at |-> t, last_activity |-> t]

\* Room.add_player
add_player(room, player, t) ==
    IF Len(room.players) >= max_players
    THEN [ok |-> FALSE, room |-> room]
    ELSE LET first == room.players = <<>>
             p == IF first THEN [player EXCEPT !.is_host = TRUE] ELSE player
             ps == Append(room.players, p)
         IN  [ok |-> TRUE,
              room |-> [room EXCEPT
                  !.host_id = IF first THEN player.id ELSE @,
                  !.players = ps,
                  !.last_activity = t,
                  !.link_cable_connected = IF Len(ps) = 2 THEN TRUE ELSE @]]

\* remove_player that forgets to take the link flag down
remove_player_keeps_link(room, player_id, t) ==
    LET ps == SelectSeq(room.players, LAMBDA p : p.id # player_id)
        promote == ps # <<>> /\ room.host_id = player_id
        ps2 == IF promote
               THEN [ps EXCEPT ![1] = [@ EXCEPT !.is_host = TRUE]]
               ELSE ps
    IN  [is_empty |-> Len(ps) = 0,
         room |-> [room EXCEPT
             !.players = ps2,
             !.last_activity = t,
             !.host_id = IF promote THEN ps[1].id ELSE @]]

\* remove_player that forgets to promote a new host
remove_player_no_promotion(room, player_id, t) ==
    LET ps == SelectSeq(room.players, LAMBDA p : p.id # player_id)
    IN  [is_empty |-> Len(ps) = 0,
         room |-> [room EXCEPT
             !.players = ps,
             !.last_activity = t,
             !.link_cable_connected = IF Len(ps) < 2 THEN FALSE ELSE @]]

\* remove_player that never reports the room empty
remove_player_never_empty(room, player_id, t) ==
    LET ps == SelectSeq(room.players, LAMBDA p : p.id # player_id)
        promote == ps # <<>> /\ room.host_id = player_id
        ps2 == IF promote
               THEN [ps EXCEPT ![1] = [@ EXCEPT !.is_host = TRUE]]
               ELSE ps
    IN  [is_empty |-> FALSE,
         room |-> [room EXCEPT
             !.players = ps2,
             !.last_activity = t,
             !.link_cable_connected = IF Len(ps) < 2 THEN FALSE ELSE @,
             !.host_id = IF promote THEN ps[1].id ELSE @]]

\* Room.remove_player
remove_player(room, player_id, t) ==
    LET ps == SelectSeq(room.players, LAMBDA p : p.id # player_id)
        promote == ps # <<>> /\ room.host_id = player_id
        ps2 == IF promote
               THEN [ps EXCEPT ![1] = [@ EXCEPT !.is_host = TRUE]]
               ELSE ps
    IN  [is_empty |-> Len(ps) = 0,
         room |-> [room EXCEPT
             !.players = ps2,
             !.last_activity = t,
             !.link_cable_connected = IF Len(ps) < 2 THEN FALSE ELSE @,
             !.host_id = IF promote THEN ps[1].id ELSE @]]

\* Room.get_player: the first member with that id, as its index (0: None)
get_player(room, player_id) ==
    IF \E i \in DOMAIN room.players : room.players[i].id = player_id
    THEN Min({i \in DOMAIN room.players : room.players[i].id = player_id})
    ELSE 0

(* --------------------------- room_manager.py ---------------------------- *)
\* The three dictionaries of RoomManager as one value
Registry == [rooms |-> rooms, player_to_room |-> player_to_room,
             socket_to_player |-> socket_to_player]

\* ids that some part of the registry still refers to
UsedPlayerIds(reg) ==
    UNION {{reg.rooms[r].players[i].id : i \in DOMAIN reg.rooms[r].players}
            \cup {reg.rooms[r].host_id} : r \in DOMAIN reg.rooms}
    \cup DOMAIN reg.player_to_room
    \cup {reg.socket_to_player[i][2] : i \in DOMAIN reg.socket_to_player}
UsedRoomIds(reg) ==
    DOMAIN reg.rooms \cup {reg.player_to_room[p] : p \in DOMAIN reg.player_to_room}

\* uuid4 of Player.id / Room.id: an id nothing refers to
HasFreshPlayer(reg) == PlayerIds \ UsedPlayerIds(reg) # {}
FreshPlayer(reg) ==
    IF HasFreshPlayer(reg) THEN Min(PlayerIds \ UsedPlayerIds(reg)) ELSE NoPlayer
HasFreshRoom(reg) == RoomIds \ UsedRoomIds(reg) # {}
FreshRoom(reg) == RoomId(Min({n \in RoomNumbers : RoomId(n) \notin UsedRoomIds(reg)}))

\* the status a new player starts with (rom: a rom_name was supplied)
InitialStatus(rom) == IF rom THEN "ready" ELSE "connecting"

\* the fields of Room declared without a default: the constructor requires them
RoomRequired == {"host_id"}

\* Room(**given) validates: no required field is missing
RoomValidates(given) == RoomRequired \subseteq given

\* create_room that forgets the player-room index
create_room_unindexed(reg, rom, t) ==
    LET host == Player(FreshPlayer(reg), TRUE, InitialStatus(rom))
        room == add_player(Room(FreshRoom(reg), t), host, t).room
    IN  [reg |-> [reg EXCEPT !.rooms = Put(@, room.id, room)],
         room |-> room.id, player |-> host.id]

\* RoomManager.create_room
create_room(reg, rom, t) ==
    LET host == Player(FreshPlayer(reg), TRUE, InitialStatus(rom))
        room == add_player(Room(FreshRoom(reg), t), host, t).room
    IN  [reg |-> [reg EXCEPT
             !.rooms = Put(@, room.id, room),
             !.player_to_room = Put(@, host.id, room.id)],
         room |-> room.id, player |-> host.id]

\* join_room whose capacity test is off by one (> for >=)
join_room_off_by_one(reg, room_id, rom, t) ==
    LET key == Upper(room_id) IN
    IF key \notin DOMAIN reg.rooms
    THEN [reg |-> reg, room |-> NoRoom, player |-> NoPlayer, msg |-> "Room not found"]
    ELSE IF ~reg.rooms[key].is_active
    THEN [reg |-> reg, room |-> NoRoom, player |-> NoPlayer,
          msg |-> "Room is no longer active"]
    ELSE IF Len(reg.rooms[key].players) > max_players
    THEN [reg |-> reg, room |-> NoRoom, player |-> NoPlayer, msg |-> "Room is full"]
    ELSE LET player == Player(FreshPlayer(reg), FALSE, InitialStatus(rom))
             added == add_player(reg.rooms[key], player, t)
         IN  IF added.ok
             THEN [reg |-> [reg EXCEPT
                       !.rooms = [@ EXCEPT ![key] = added.room],
                       !.player_to_room = Put(@, player.id, key)],
                   room |-> key, player |-> player.id,
                   msg |-> "Successfully joined room"]
             ELSE [reg |-> reg, room |-> NoRoom, player |-> NoPlayer,
                   msg |-> "Failed to join room"]

\* join_room that tests capacity before the active flag
join_room_full_first(reg, room_id, rom, t) ==
    LET key == Upper(room_id) IN
    IF key \notin DOMAIN reg.rooms
    THEN [reg |-> reg, room |-> NoRoom, player |-> NoPlayer, msg |-> "Room not found"]
    ELSE IF Len(reg.rooms[key].players) >= max_players
    THEN [reg |-> reg, room |-> NoRoom, player |-> NoPlayer, msg |-> "Room is full"]
    ELSE IF ~reg.rooms[key].is_active
    THEN [reg |-> reg, room |-> NoRoom, player |-> NoPlayer,
          msg |-> "Room is no longer active"]
    ELSE LET player == Player(FreshPlayer(reg), FALSE, InitialStatus(rom))
             added == add_player(reg.rooms[key], player, t)
         IN  IF added.ok
             THEN [reg |-> [reg EXCEPT
                       !.rooms = [@ EXCEPT ![key] = added.room],
                       !.player_to_room = Put(@, player.id, key)],
                   room |-> key, player |-> player.id,
                   msg |-> "Successfully joined room"]
             ELSE [reg |-> reg, room |-> NoRoom, player |-> NoPlayer,
                   msg |-> "Failed to join room"]

\* RoomManager.join_room
join_room(reg, room_id, rom, t) ==
    LET key == Upper(room_id) IN
    IF key \notin DOMAIN reg.rooms
    THEN [reg |-> reg, room |-> NoRoom, player |-> NoPlayer, msg |-> "Room not found"]
    ELSE IF ~reg.rooms[key].is_active
    THEN [reg |-> reg, room |-> NoRoom, player |-> NoPlayer,
          msg |-> "Room is no longer active"]
    ELSE IF Len(reg.rooms[key].players) >= max_players
    THEN [reg |-> reg, room |-> NoRoom, player |-> NoPlayer, msg |-> "Room is full"]
    ELSE LET player == Player(FreshPlayer(reg), FALSE, InitialStatus(rom))
             added == add_player(reg.rooms[key], player, t)
         IN  IF added.ok
             THEN [reg |-> [reg EXCEPT
                       !.rooms = [@ EXCEPT ![key] = added.room],
                       !.player_to_room = Put(@, player.id, key)],
                   room |-> key, player |-> player.id,
                   msg |-> "Successfully joined room"]
             ELSE [reg |-> reg, room |-> NoRoom, player |-> NoPlayer,
                   msg |-> "Failed to join room"]

\* RoomManager.create_room as it is called: its first statement is Room(),
\* with no field given, and a ValidationError leaves the registry as it was
create_room_call(reg, rom, t) ==
    IF RoomValidates({})
    THEN [raised |-> FALSE] @@ create_room(reg, rom, t)
    ELSE [raised |-> TRUE, reg |-> reg, room |-> NoRoom, player |-> NoPlayer]

\* the position of the first socket_to_player item whose value is player_id (0: None)
FirstSocketOf(od, player_id) ==
    IF \E i \in DOMAIN od : od[i][2] = player_id
    THEN Min({i \in DOMAIN od : od[i][2] = player_id})
    ELSE 0

\* RoomManager.leave_room; room: the room returned (NoRoom: None)
leave_room(reg, player_id, t) ==
    IF player_id \notin DOMAIN reg.player_to_room
    THEN [reg |-> reg, room |-> NoRoom]
    ELSE LET room_id == reg.player_to_room[player_id] IN
         IF room_id \notin DOMAIN reg.rooms
         THEN [reg |-> reg, room |-> NoRoom]
         ELSE LET rp == remove_player(reg.rooms[room_id], player_id, t)
                  p2r == Del(reg.player_to_room, player_id)
                  i == FirstSocketOf(reg.socket_to_player, player_id)
                  s2p == IF i # 0
                         THEN ODel(reg.socket_to_player, reg.socket_to_player[i][1])
                         ELSE reg.socket_to_player
              IN  IF rp.is_empty
                  THEN [reg |-> [rooms |-> Del(reg.rooms, room_id),
                                 player_to_room |-> p2r, socket_to_player |-> s2p],
                        room |-> NoRoom]
                  ELSE [reg |-> [rooms |-> [reg.rooms EXCEPT ![room_id] = rp.room],
                                 player_to_room |-> p2r, socket_to_player |-> s2p],
                        room |-> room_id]

\* RoomManager.get_room
get_room(reg, room_id) ==
    IF Upper(room_id) \in DOMAIN reg.rooms THEN Upper(room_id) ELSE NoRoom

\* RoomManager.get_player_room
get_player_room(reg, player_id) ==
    IF player_id \in DOMAIN reg.player_to_room
       /\ reg.player_to_room[player_id] \in DOMAIN reg.rooms
    THEN reg.player_to_room[player_id]
    ELSE NoRoom

\* list.sort(key=created_at, reverse=True) is stable: room_id goes behind every
\* room of the sorted list that is as new or newer
RECURSIVE InsertNewestFirst(_, _, _)
InsertNewestFirst(reg, sorted, room_id) ==
    IF sorted = <<>> THEN <<room_id>>
    ELSE IF reg.rooms[Head(sorted)].created_at >= reg.rooms[room_id].created_at
         THEN <<Head(sorted)>> \o InsertNewestFirst(reg, Tail(sorted), room_id)
         ELSE <<room_id>> \o sorted

RECURSIVE SortNewestFirst(_, _, _)
SortNewestFirst(reg, sorted, rest) ==
    IF rest = <<>> THEN sorted
    ELSE SortNewestFirst(reg, InsertNewestFirst(reg, sorted, Head(rest)), Tail(rest))

\* list[:limit] for limit >= 0
Slice(list, limit) == SubSeq(list, 1, IF limit < Len(list) THEN limit ELSE Len(list))

\* the orders in which self.rooms.values() can iterate: rooms are inserted
\* when they are created, so an older room never comes after a newer one
IterationOrders(reg) ==
    {order \in [1..Cardinality(DOMAIN reg.rooms) -> DOMAIN reg.rooms] :
        /\ \A i, j \in DOMAIN order : i # j => order[i] # order[j]
        /\ \A i, j \in DOMAIN order :
              i < j => reg.rooms[order[i]].created_at <= reg.rooms[order[j]].created_at}

\* get_available_rooms that lists full rooms too
get_available_rooms_any_size(reg, order, limit) ==
    LET available == SelectSeq(order, LAMBDA r : reg.rooms[r].is_active)
    IN  Slice(SortNewestFirst(reg, <<>>, available), limit)

\* RoomManager.get_available_rooms, with self.rooms iterated in the given order
get_available_rooms(reg, order, limit) ==
    LET available == SelectSeq(order, LAMBDA r :
                         reg.rooms[r].is_active
                         /\ Len(reg.rooms[r].players) < max_players)
    IN  Slice(SortNewestFirst(reg, <<>>, available), limit)

\* RoomManager.update_player_status
update_player_status(reg, player_id, status, t) ==
    LET room == get_player_room(reg, player_id) IN
    IF room = NoRoom THEN [ok |-> FALSE, reg |-> reg]
    ELSE LET i == get_player(reg.rooms[room], player_id) IN
         IF i = 0 THEN [ok |-> FALSE, reg |-> reg]
         ELSE [ok |-> TRUE,
               reg |-> [reg EXCEPT !.rooms[room] = [@ EXCEPT
                   !.players[i].status = status,
                   !.last_activity = t]]]

\* connect_socket that leaves the player's status as it was
connect_socket_keeps_status(reg, socket_id, player_id, t) ==
    LET room == get_player_room(reg, player_id) IN
    IF room = NoRoom THEN [ok |-> FALSE, reg |-> reg]
    ELSE LET i == get_player(reg.rooms[room], player_id) IN
         IF i = 0 THEN [ok |-> FALSE, reg |-> reg]
         ELSE [ok |-> TRUE,
               reg |-> [reg EXCEPT
                   !.socket_to_player = OPut(@, socket_id, player_id),
                   !.rooms[room] = [@ EXCEPT
                       !.players[i].socket_id = socket_id,
                       !.last_activity = t]]]

\* RoomManager.connect_socket
connect_socket(reg, socket_id, player_id, t) ==
    LET room == get_player_room(reg, player_id) IN
    IF room = NoRoom THEN [ok |-> FALSE, reg |-> reg]
    ELSE LET i == get_player(reg.rooms[room], player_id) IN
         IF i = 0 THEN [ok |-> FALSE, reg |-> reg]
         ELSE [ok |-> TRUE,
               reg |-> [reg EXCEPT
                   !.socket_to_player = OPut(@, socket_id, player_id),
                   !.rooms[room] = [@ EXCEPT
                       !.players[i].socket_id = socket_id,
                       !.players[i].status = "connected",
                       !.last_activity = t]]]

\* RoomManager.get_player_by_socket; room = NoRoom: None
get_player_by_socket(reg, socket_id) ==
    LET player_id == OGet(reg.socket_to_player, socket_id)
        room == get_player_room(reg, player_id)
        i == IF room = NoRoom THEN 0 ELSE get_player(reg.rooms[room], player_id)
    IN  IF player_id = NoPlayer \/ room = NoRoom \/ i = 0
        THEN [room |-> NoRoom, player |-> NoPlayer, idx |-> 0]
        ELSE [room |-> room, player |-> player_id, idx |-> i]

\* disconnect_socket that leaves the socket in the index
disconnect_socket_keeps_entry(reg, socket_id) ==
    LET found == get_player_by_socket(reg, socket_id) IN
    IF found.room = NoRoom
    THEN [reg |-> reg, room |-> NoRoom, player |-> NoPlayer]
    ELSE [reg |-> [reg EXCEPT
              !.rooms[found.room].players[found.idx] =
                  [@ EXCEPT !.socket_id = NoSocket, !.status = "disconnected"]],
          room |-> found.room, player |-> found.player]

\* RoomManager.disconnect_socket; room = NoRoom: None
disconnect_socket(reg, socket_id) ==
    LET found == get_player_by_socket(reg, socket_id) IN
    IF found.room = NoRoom
    THEN [reg |-> reg, room |-> NoRoom, player |-> NoPlayer]
    ELSE [reg |-> [reg EXCEPT
              !.rooms[found.room].players[found.idx] =
                  [@ EXCEPT !.socket_id = NoSocket, !.status = "disconnected"],
              !.socket_to_player = ODel(@, socket_id)],
          room |-> found.room, player |-> found.player]

\* the loop of remove_room over a copy of the member list
RECURSIVE LeaveAll(_, _, _)
LeaveAll(reg, ids, t) ==
    IF ids = <<>> THEN reg
    ELSE LeaveAll(leave_room(reg, Head(ids), t).reg, Tail(ids), t)

\* RoomManager.remove_room (room_id is looked up as given, not upper-cased)
remove_room(reg, room_id, t) ==
    IF room_id \notin DOMAIN reg.rooms THEN reg
    ELSE LET ids == [i \in DOMAIN reg.rooms[room_id].players |->
                         reg.rooms[room_id].players[i].id]
             left == LeaveAll(reg, ids, t)
         IN  IF room_id \in DOMAIN left.rooms
             THEN [left EXCEPT !.rooms = Del(@, room_id)]
             ELSE left

(* ------------------------- websocket_handler.py ------------------------- *)
\* The Connection Table together with the sends issued so far by a handler
Conn == [active |-> active_connections, out |-> <<>>]

\* an outbound message: type, the player it is about, the status text it carries
Msg(type, about, text) == [type |-> type, about |-> about, text |-> text]

\* the messages whose data holds 'room': room.dict(), a dictionary with the
\* datetime values created_at, last_activity and joined_at
RoomSnapshotTypes ==
    {"player_joined", "room_joined", "player_left", "player_status_updated",
     "player_disconnected"}

\* json.dumps(message) raises TypeError: a datetime is not JSON serializable
json_dumps_raises(message) == message.type \in RoomSnapshotTypes

\* send_message that leaves a socket registered when its send raises
send_message_keeps_failed(conn, socket_id, message) ==
    IF socket_id \in conn.active
    THEN IF json_dumps_raises(message) \/ socket_id \in broken
         THEN [active |-> conn.active,
               out |-> Append(conn.out, [to |-> socket_id, msg |-> message,
                                         res |-> "failed"])]
         ELSE [active |-> conn.active,
               out |-> Append(conn.out, [to |-> socket_id, msg |-> message,
                                         res |-> "sent"])]
    ELSE [active |-> conn.active,
          out |-> Append(conn.out, [to |-> socket_id, msg |-> message,
                                    res |-> "unregistered"])]

\* WebSocketManager.send_message: res is "sent" (True), or "failed" (json.dumps
\* or send_text raised: the socket is unregistered) or "unregistered" (no such
\* socket), both False
send_message(conn, socket_id, message) ==
    IF socket_id \in conn.active
    THEN IF json_dumps_raises(message) \/ socket_id \in broken
         THEN [active |-> conn.active \ {socket_id},
               out |-> Append(conn.out, [to |-> socket_id, msg |-> message,
                                         res |-> "failed"])]
         ELSE [active |-> conn.active,
               out |-> Append(conn.out, [to |-> socket_id, msg |-> message,
                                         res |-> "sent"])]
    ELSE [active |-> conn.active,
          out |-> Append(conn.out, [to |-> socket_id, msg |-> message,
                                    res |-> "unregistered"])]

\* the loop of broadcast_to_room over room.players
RECURSIVE BroadcastLoop(_, _, _, _)
BroadcastLoop(conn, players, message, exclude_socket) ==
    IF players = <<>> THEN conn
    ELSE LET player == Head(players)
             next == IF player.socket_id # NoSocket /\ player.socket_id # exclude_socket
                     THEN send_message(conn, player.socket_id, message)
                     ELSE conn
         IN  BroadcastLoop(next, Tail(players), message, exclude_socket)

\* WebSocketManager.broadcast_to_room
broadcast_to_room(reg, conn, room_id, message, exclude_socket) ==
    LET room == get_room(reg, room_id) IN
    IF room = NoRoom THEN conn
    ELSE BroadcastLoop(conn, reg.rooms[room].players, message, exclude_socket)

\* WebSocketManager._handle_join_room; player_id = NoPlayer: data has no player_id
handle_join_room(reg, conn, socket_id, player_id, t) ==
    IF player_id = NoPlayer
    THEN [reg |-> reg, res |-> "Player ID required",
          conn |-> send_message(conn, socket_id, Msg("error", NoPlayer, "Player ID required"))]
    ELSE LET bound == connect_socket(reg, socket_id, player_id, t) IN
         IF bound.ok
         THEN LET room_data == get_player_room(bound.reg, player_id) IN
              IF room_data # NoRoom
              THEN LET told == broadcast_to_room(bound.reg, conn, room_data,
                                   Msg("player_joined", NoPlayer, ""), socket_id)
                   IN  [reg |-> bound.reg, res |-> "ok",
                        conn |-> send_message(told, socket_id,
                                     Msg("room_joined", NoPlayer, ""))]
              ELSE [reg |-> bound.reg, res |-> "ok", conn |-> conn]
         ELSE [reg |-> reg, res |-> "Failed to join room",
               conn |-> send_message(conn, socket_id,
                            Msg("error", NoPlayer, "Failed to join room"))]

\* WebSocketManager._handle_leave_room
handle_leave_room(reg, conn, socket_id) ==
    LET result == disconnect_socket(reg, socket_id) IN
    IF result.room # NoRoom
    THEN [reg |-> result.reg, room |-> result.room, player |-> result.player,
          conn |-> broadcast_to_room(result.reg, conn, result.room,
                       Msg("player_left", result.player, ""), socket_id)]
    ELSE [reg |-> result.reg, room |-> NoRoom, player |-> NoPlayer, conn |-> conn]

\* the search for the other player without the test of its socket_id
OtherPlayer_any_member(room, sender_id) ==
    LET found == {i \in DOMAIN room.players : room.players[i].id # sender_id}
    IN  IF found = {} THEN 0 ELSE Min(found)

\* the search of _handle_link_cable_data for the other player: its index (0: None)
OtherPlayer(room, sender_id) ==
    LET found == {i \in DOMAIN room.players :
                     room.players[i].id # sender_id
                     /\ room.players[i].socket_id # NoSocket}
    IN  IF found = {} THEN 0 ELSE Min(found)

\* the data of a link_cable_data message as the client sent it: a dictionary
\* with any of the keys action, payload, timestamp (values are opaque)
LinkInputs ==
    {[action |-> "trade", payload |-> "bytes", timestamp |-> "t1"],
     [action |-> "battle"]}

\* dict.get(key, default)
DictGet(d, key, default) == IF key \in DOMAIN d THEN d[key] ELSE default

\* the link_message _handle_link_cable_data builds from the data and the sender
LinkMsg(data, sender) ==
    [type |-> "link_cable_data", about |-> sender, text |-> "",
     action |-> DictGet(data, "action", "None"),
     payload |-> DictGet(data, "payload", "{}"),
     timestamp |-> DictGet(data, "timestamp", "None")]

\* WebSocketManager._handle_link_cable_data
handle_link_cable_data(reg, conn, socket_id, data) ==
    LET result == get_player_by_socket(reg, socket_id) IN
    IF result.room = NoRoom THEN [res |-> "unbound", conn |-> conn]
    ELSE LET room == reg.rooms[result.room] IN
         IF ~room.link_cable_connected
         THEN [res |-> "Link cable not connected",
               conn |-> send_message(conn, socket_id,
                            Msg("error", NoPlayer, "Link cable not connected"))]
         ELSE LET other == OtherPlayer(room, result.player) IN
              IF other = 0
              THEN [res |-> "No other player connected",
                    conn |-> send_message(conn, socket_id,
                                 Msg("error", NoPlayer, "No other player connected"))]
              ELSE [res |-> "ok",
                    conn |-> send_message(conn, room.players[other].socket_id,
                                 LinkMsg(data, result.player))]

\* the status texts a client sends in the model
StatusInputs == {"Playing", "bogus"}
\* str.upper() / str.lower() on those texts
StatusUpper(text) == IF text = "Playing" THEN "PLAYING" ELSE "BOGUS"
StatusLower(text) == IF text = "Playing" THEN "playing" ELSE "bogus"
\* the member names of the enum PlayerStatus
PlayerStatusNames == {"CONNECTING", "CONNECTED", "READY", "PLAYING", "DISCONNECTED"}

\* WebSocketManager._handle_player_status
handle_player_status(reg, conn, socket_id, status, t) ==
    LET result == get_player_by_socket(reg, socket_id) IN
    IF result.room = NoRoom THEN [reg |-> reg, res |-> "unbound", conn |-> conn]
    ELSE IF StatusUpper(status) \in PlayerStatusNames
    THEN LET updated == update_player_status(reg, result.player, StatusLower(status), t) IN
         IF updated.ok
         THEN [reg |-> updated.reg, res |-> "ok",
               conn |-> broadcast_to_room(updated.reg, conn, result.room,
                            Msg("player_status_updated", result.player, status),
                            NoSocket)]
         ELSE [reg |-> reg, res |-> "not updated", conn |-> conn]
    ELSE [reg |-> reg, res |-> "unrecognized", conn |-> conn]

\* the save_state_response message: its action, success and save_data
SaveMsg(action, success, save_data) ==
    [type |-> "save_state_response", action |-> action, success |-> success,
     save_data |-> save_data]

\* _handle_save_state that stores the blob on the first member of the room
handle_save_state_on_host(reg, conn, socket_id, action, blob) ==
    LET result == get_player_by_socket(reg, socket_id) IN
    IF result.room = NoRoom THEN [reg |-> reg, res |-> "unbound", conn |-> conn]
    ELSE LET player == reg.rooms[result.room].players[result.idx] IN
         IF action = "save"
         THEN [reg |-> [reg EXCEPT
                   !.rooms[result.room].players[1].save_state = blob],
               res |-> "saved",
               conn |-> send_message(conn, socket_id, SaveMsg("save", TRUE, NoSave))]
         ELSE IF action = "load"
         THEN IF player.save_state # NoSave
              THEN [reg |-> reg, res |-> "loaded",
                    conn |-> send_message(conn, socket_id,
                                 SaveMsg("load", TRUE, player.save_state))]
              ELSE [reg |-> reg, res |-> "No save state found",
                    conn |-> send_message(conn, socket_id,
                                 SaveMsg("load", FALSE, NoSave))]
         ELSE [reg |-> reg, res |-> "ignored", conn |-> conn]

\* WebSocketManager._handle_save_state; blob: the save_data of the message
handle_save_state(reg, conn, socket_id, action, blob) ==
    LET result == get_player_by_socket(reg, socket_id) IN
    IF result.room = NoRoom THEN [reg |-> reg, res |-> "unbound", conn |-> conn]
    ELSE LET player == reg.rooms[result.room].players[result.idx] IN
         IF action = "save"
         THEN [reg |-> [reg EXCEPT
                   !.rooms[result.room].players[result.idx].save_state = blob],
               res |-> "saved",
               conn |-> send_message(conn, socket_id, SaveMsg("save", TRUE, NoSave))]
         ELSE IF action = "load"
         THEN IF player.save_state # NoSave
              THEN [reg |-> reg, res |-> "loaded",
                    conn |-> send_message(conn, socket_id,
                                 SaveMsg("load", TRUE, player.save_state))]
              ELSE [reg |-> reg, res |-> "No save state found",
                    conn |-> send_message(conn, socket_id,
                                 SaveMsg("load", FALSE, NoSave))]
         ELSE [reg |-> reg, res |-> "ignored", conn |-> conn]

(* ------------------------- the expiry sweeper --------------------------- *)
\* the rooms one cycle of _cleanup_inactive_rooms collects
rooms_to_remove(reg, t) ==
    {r \in DOMAIN reg.rooms :
        reg.rooms[r].last_activity < t - TTL \/ ~reg.rooms[r].is_active}

\* the loop of the cycle over rooms_to_remove
RECURSIVE RemoveAll(_, _, _)
RemoveAll(reg, ids, t) ==
    IF ids = {} THEN reg
    ELSE LET r == CHOOSE x \in ids : TRUE
         IN  RemoveAll(remove_room(reg, r, t), ids \ {r}, t)

\* _cleanup_task is None
NoTask == [pc |-> "None", cancel |-> "no"]

\* where the task of _cleanup_inactive_rooms can be suspended: created and not
\* yet run, in asyncio.sleep(300) inside the try block, in asyncio.sleep(60)
\* inside the except Exception clause.  A cycle has no await that suspends.
TaskSuspended == {"created", "sleep300", "sleep60"}

\* a loop that treats a cancellation in its long sleep as a cycle failure
on_cancelled_backoff(pc) ==
    IF pc = "sleep300" THEN [pc |-> "sleep60", by |-> "Error in cleanup task"]
    ELSE [pc |-> "finished", by |-> "CancelledError"]

\* CancelledError is raised where the task is suspended: in sleep(300) the
\* clause except asyncio.CancelledError breaks out of the loop; in sleep(60),
\* inside an except clause, and before the first step, nothing catches it and
\* it ends the coroutine
on_cancelled(pc) ==
    IF pc = "sleep300" THEN [pc |-> "finished", by |-> "break"]
    ELSE [pc |-> "finished", by |-> "CancelledError"]

(* ------------------------------ history --------------------------------- *)
\* a return value: a text or truth value, a room (NoRoom: None), a player
Ret(res, room, player) == [res |-> res, room |-> room, player |-> player]
NoRet == Ret("", NoRoom, NoPlayer)

\* membership, host, link-established and the player-room index of a registry
Membership(reg) ==
    [rooms |-> [r \in DOMAIN reg.rooms |->
                   [members |-> [i \in DOMAIN reg.rooms[r].players |->
                                    <<reg.rooms[r].players[i].id,
                                      reg.rooms[r].players[i].is_host>>],
                    host_id |-> reg.rooms[r].host_id,
                    link |-> reg.rooms[r].link_cable_connected]],
     player_to_room |-> reg.player_to_room]

\* the status of player_id in a registry ("none": not a member of any room)
StatusIn(reg, player_id) ==
    LET room == get_player_room(reg, player_id)
        i == IF room = NoRoom THEN 0 ELSE get_player(reg.rooms[room], player_id)
    IN  IF i = 0 THEN "none" ELSE reg.rooms[room].players[i].status

NoRt == [st |-> "none", sock |-> NoSocket, player |-> NoPlayer,
         room |-> NoRoom, before |-> <<>>, was |-> "none"]

\* the round trip bookkeeping of a bind of socket_id to player_id
RtAfterBind(socket_id, player_id, bound) ==
    IF bound
    THEN [st |-> "bound", sock |-> socket_id, player |-> player_id,
          room |-> get_player_room(Registry, player_id),
          before |-> Membership(Registry),
          was |-> StatusIn(Registry, player_id)]
    ELSE NoRt

\* the round trip bookkeeping of an unbind of socket_id
RtAfterUnbind(socket_id) ==
    IF rt.st = "bound" /\ rt.sock = socket_id
    THEN [rt EXCEPT !.st = "done"]
    ELSE NoRt

SetRegistry(reg) ==
    /\ rooms' = reg.rooms
    /\ player_to_room' = reg.player_to_room
    /\ socket_to_player' = reg.socket_to_player

transport == <<active_connections, open, broken, sending>>

(* ------------------------------ actions --------------------------------- *)
Init ==
    /\ rooms = EmptyDict
    /\ player_to_room = EmptyDict
    /\ socket_to_player = <<>>
    /\ active_connections = {}
    /\ open = {}
    /\ broken = {}
    /\ now = 0
    /\ ret = NoRet
    /\ out = <<>>
    /\ rt = NoRt
    /\ sending = [c \in SocketIds |-> NoSocket]
    /\ cleanup_task = NoTask

\* the clock advances by an hour
Tick ==
    /\ now < MaxTime
    /\ now' = now + 1
    /\ ret' = NoRet /\ out' = <<>> /\ rt' = NoRt
    /\ UNCHANGED <<rooms, player_to_room, socket_to_player, transport, cleanup_task>>

\* POST /api/rooms -> RoomManager.create_room
CreateRoom(rom) ==
    /\ HasFreshPlayer(Registry) /\ HasFreshRoom(Registry)
    /\ LET r == create_room(Registry, rom, now) IN
        /\ SetRegistry(r.reg)
        /\ ret' = Ret("ok", r.room, r.player)
    /\ out' = <<>> /\ rt' = NoRt
    /\ UNCHANGED <<transport, now, cleanup_task>>

\* POST /api/rooms -> RoomManager.create_room, with Room() validated: the
\* route answers 500 when create_room raises
CreateRoomCall(rom) ==
    /\ LET r == create_room_call(Registry, rom, now) IN
        /\ ~r.raised => (HasFreshPlayer(Registry) /\ HasFreshRoom(Registry))
        /\ SetRegistry(r.reg)
        /\ ret' = Ret(IF r.raised THEN "ValidationError" ELSE "ok", r.room, r.player)
    /\ out' = <<>> /\ rt' = NoRt
    /\ UNCHANGED <<transport, now, cleanup_task>>

\* POST /api/rooms/join -> RoomManager.join_room
JoinRoom(code, rom) ==
    /\ LET r == join_room(Registry, code, rom, now) IN
        /\ r.msg = "Successfully joined room" => HasFreshPlayer(Registry)
        /\ SetRegistry(r.reg)
        /\ ret' = Ret(r.msg, r.room, r.player)
    /\ out' = <<>> /\ rt' = NoRt
    /\ UNCHANGED <<transport, now, cleanup_task>>

\* RoomManager.leave_room, the LeaveRoom operation of the registry
LeaveRoom(player_id) ==
    /\ LET r == leave_room(Registry, player_id, now) IN
        /\ SetRegistry(r.reg)
        /\ ret' = Ret("", r.room, NoPlayer)
    /\ out' = <<>> /\ rt' = NoRt
    /\ UNCHANGED <<transport, now, cleanup_task>>

\* DELETE /api/rooms/{room_id} -> RoomManager.remove_room
RemoveRoom(code) ==
    /\ SetRegistry(remove_room(Registry, code, now))
    /\ ret' = NoRet /\ out' = <<>> /\ rt' = NoRt
    /\ UNCHANGED <<transport, now, cleanup_task>>

\* one cycle of RoomManager._cleanup_inactive_rooms
Sweep ==
    /\ SetRegistry(RemoveAll(Registry, rooms_to_remove(Registry, now), now))
    /\ ret' = NoRet /\ out' = <<>> /\ rt' = NoRt
    /\ UNCHANGED <<transport, now, cleanup_task>>

\* one cycle of _cleanup_inactive_rooms in which an exception is raised while
\* the collected room bad is being removed: the rooms in done came before it in
\* the iteration order of the room table (any order of creation is possible),
\* the except clause logs and the task sleeps 60 seconds before the next cycle
SweepFailing(bad, done) ==
    /\ bad \in rooms_to_remove(Registry, now)
    /\ done \subseteq rooms_to_remove(Registry, now) \ {bad}
    /\ SetRegistry(RemoveAll(Registry, done, now))
    /\ ret' = Ret("Error in cleanup task", bad, NoPlayer)
    /\ out' = <<>> /\ rt' = NoRt
    /\ UNCHANGED <<transport, now, cleanup_task>>

\* RoomManager.start_cleanup_task
StartCleanupTask ==
    /\ cleanup_task' = IF cleanup_task.pc = "None"
                       THEN [pc |-> "created", cancel |-> "no"]
                       ELSE cleanup_task
    /\ ret' = Ret("started", NoRoom, NoPlayer)
    /\ out' = <<>> /\ rt' = NoRt
    /\ UNCHANGED <<rooms, player_to_room, socket_to_player, transport, now>>

\* the task runs a cycle of _cleanup_inactive_rooms and goes to sleep(300)
CleanupCycle ==
    /\ cleanup_task.pc \in TaskSuspended
    /\ cleanup_task.cancel # "requested"
    /\ SetRegistry(RemoveAll(Registry, rooms_to_remove(Registry, now), now))
    /\ cleanup_task' = [cleanup_task EXCEPT !.pc = "sleep300"]
    /\ ret' = NoRet /\ out' = <<>> /\ rt' = NoRt
    /\ UNCHANGED <<transport, now>>

\* the task runs a cycle in which an exception is raised at the room bad and
\* goes to sleep(60) in the except clause
CleanupCycleFailing(bad, done) ==
    /\ cleanup_task.pc \in TaskSuspended
    /\ cleanup_task.cancel # "requested"
    /\ bad \in rooms_to_remove(Registry, now)
    /\ done \subseteq rooms_to_remove(Registry, now) \ {bad}
    /\ SetRegistry(RemoveAll(Registry, done, now))
    /\ cleanup_task' = [cleanup_task EXCEPT !.pc = "sleep60"]
    /\ ret' = Ret("Error in cleanup task", bad, NoPlayer)
    /\ out' = <<>> /\ rt' = NoRt
    /\ UNCHANGED <<transport, now>>

\* RoomManager.stop_cleanup_task up to its await: the task is cancelled
StopCleanupTask ==
    /\ cleanup_task.cancel = "no"
    /\ IF cleanup_task.pc = "None"
       THEN /\ cleanup_task' = cleanup_task
            /\ ret' = Ret("stopped", NoRoom, NoPlayer)
       ELSE /\ cleanup_task' = [cleanup_task EXCEPT !.cancel = "requested"]
            /\ ret' = NoRet
    /\ out' = <<>> /\ rt' = NoRt
    /\ UNCHANGED <<rooms, player_to_room, socket_to_player, transport, now>>

\* the event loop resumes the cancelled task with CancelledError
CancelDelivered ==
    /\ cleanup_task.cancel = "requested"
    /\ cleanup_task.pc \in TaskSuspended
    /\ LET after == on_cancelled(cleanup_task.pc) IN
        /\ cleanup_task' = [pc |-> after.pc, cancel |-> "delivered"]
        /\ ret' = Ret(after.by, NoRoom, NoPlayer)
    /\ out' = <<>> /\ rt' = NoRt
    /\ UNCHANGED <<rooms, player_to_room, socket_to_player, transport, now>>

\* stop_cleanup_task after its await: the task has ended, _cleanup_task = None
StopReturns ==
    /\ cleanup_task.cancel = "delivered"
    /\ cleanup_task.pc = "finished"
    /\ cleanup_task' = NoTask
    /\ ret' = Ret("stopped", NoRoom, NoPlayer)
    /\ out' = <<>> /\ rt' = NoRt
    /\ UNCHANGED <<rooms, player_to_room, socket_to_player, transport, now>>

\* RoomManager.get_available_rooms, the ListAvailableRooms operation
ListAvailableRooms(limit) ==
    /\ \E order \in IterationOrders(Registry) :
          ret' = [res |-> "rooms", room |-> NoRoom, player |-> NoPlayer,
                  limit |-> limit,
                  rooms |-> get_available_rooms(Registry, order, limit)]
    /\ out' = <<>> /\ rt' = NoRt
    /\ UNCHANGED <<rooms, player_to_room, socket_to_player, transport, now, cleanup_task>>

\* RoomManager.connect_socket, the BindConnection operation of the registry
BindConnection(socket_id, player_id) ==
    /\ LET r == connect_socket(Registry, socket_id, player_id, now) IN
        /\ SetRegistry(r.reg)
        /\ ret' = Ret(IF r.ok THEN "True" ELSE "False", NoRoom, NoPlayer)
        /\ rt' = RtAfterBind(socket_id, player_id, r.ok)
    /\ out' = <<>>
    /\ UNCHANGED <<transport, now, cleanup_task>>

\* RoomManager.disconnect_socket, the UnbindConnection operation of the registry
UnbindConnection(socket_id) ==
    /\ LET r == disconnect_socket(Registry, socket_id) IN
        /\ SetRegistry(r.reg)
        /\ ret' = Ret("", r.room, r.player)
    /\ rt' = RtAfterUnbind(socket_id)
    /\ out' = <<>>
    /\ UNCHANGED <<transport, now, cleanup_task>>

\* RoomManager.update_player_status, the UpdatePlayerStatus operation
UpdatePlayerStatus(player_id, status) ==
    /\ LET r == update_player_status(Registry, player_id, status, now) IN
        /\ SetRegistry(r.reg)
        /\ ret' = Ret(IF r.ok THEN "True" ELSE "False", NoRoom, NoPlayer)
    /\ out' = <<>> /\ rt' = NoRt
    /\ UNCHANGED <<transport, now, cleanup_task>>

\* websocket_endpoint: WebSocketManager.connect
Connect(socket_id) ==
    /\ socket_id \notin open
    /\ open' = open \cup {socket_id}
    /\ active_connections' = active_connections \cup {socket_id}
    /\ ret' = NoRet /\ out' = <<>> /\ rt' = NoRt
    /\ UNCHANGED <<rooms, player_to_room, socket_to_player, broken, now, sending, cleanup_task>>

\* the transport of an open socket breaks: send_text raises from now on
Break(socket_id) ==
    /\ socket_id \in open \ broken
    /\ broken' = broken \cup {socket_id}
    /\ ret' = NoRet /\ out' = <<>> /\ rt' = NoRt
    /\ UNCHANGED <<rooms, player_to_room, socket_to_player, active_connections,
                   open, now, sending, cleanup_task>>

\* websocket_endpoint, finally: the receive loop of socket_id has ended with
\* the exception why
Finally(socket_id, why) ==
    /\ socket_id \in open
    /\ open' = open \ {socket_id}
    /\ broken' = broken \ {socket_id}
    /\ LET conn == [active |-> active_connections \ {socket_id}, out |-> <<>>]
           result == disconnect_socket(Registry, socket_id)
           told == IF result.room # NoRoom
                   THEN broadcast_to_room(result.reg, conn, result.room,
                            Msg("player_disconnected", result.player, ""), socket_id)
                   ELSE conn
       IN  /\ SetRegistry(result.reg)
           /\ active_connections' = told.active
           /\ out' = told.out
           /\ ret' = Ret(why, result.room, result.player)
    /\ rt' = RtAfterUnbind(socket_id)
    /\ UNCHANGED <<now, sending, cleanup_task>>

\* the client closes the socket: receive_text raises WebSocketDisconnect
Close(socket_id) == Finally(socket_id, "")

\* the malformed inbound texts: text that json.loads rejects, a JSON value that
\* is no mapping, a mapping with a field of a type the handler cannot use
MalformedKinds == {"unparseable", "not_mapping", "bad_field"}

\* a malformed text arrives on socket_id.  json.loads is called in the receive
\* loop, outside handle_message: its JSONDecodeError ends the loop.  The other
\* kinds raise inside handle_message, before any write, and are caught there.
ReceiveMalformed(socket_id, kind) ==
    IF kind = "unparseable"
    THEN Finally(socket_id, "JSONDecodeError")
    ELSE /\ socket_id \in open
         /\ LET conn == send_message(Conn, socket_id,
                             Msg("error", NoPlayer, "Failed to process message"))
            IN  /\ active_connections' = conn.active
                /\ out' = conn.out
         /\ ret' = Ret("Failed to process message", NoRoom, NoPlayer)
         /\ rt' = NoRt
         /\ UNCHANGED <<rooms, player_to_room, socket_to_player, open, broken, now,
                        sending, cleanup_task>>

\* a join_room message on socket_id
HandleJoinRoom(socket_id, player_id) ==
    /\ socket_id \in open
    /\ LET r == handle_join_room(Registry, Conn, socket_id, player_id, now) IN
        /\ SetRegistry(r.reg)
        /\ active_connections' = r.conn.active
        /\ out' = r.conn.out
        /\ ret' = Ret(r.res, NoRoom, NoPlayer)
        /\ rt' = RtAfterBind(socket_id, player_id, r.res = "ok")
    /\ UNCHANGED <<open, broken, now, sending, cleanup_task>>

\* a leave_room message on socket_id
HandleLeaveRoom(socket_id) ==
    /\ socket_id \in open
    /\ LET r == handle_leave_room(Registry, Conn, socket_id) IN
        /\ SetRegistry(r.reg)
        /\ active_connections' = r.conn.active
        /\ out' = r.conn.out
        /\ ret' = Ret("", r.room, r.player)
    /\ rt' = RtAfterUnbind(socket_id)
    /\ UNCHANGED <<open, broken, now, sending, cleanup_task>>

\* a link_cable_data message on socket_id
HandleLinkCableData(socket_id, data) ==
    /\ socket_id \in open
    /\ LET r == handle_link_cable_data(Registry, Conn, socket_id, data) IN
        /\ active_connections' = r.conn.active
        /\ out' = r.conn.out
        /\ ret' = Ret(r.res, NoRoom, NoPlayer)
    /\ rt' = NoRt
    /\ UNCHANGED <<rooms, player_to_room, socket_to_player, open, broken, now, sending, cleanup_task>>

\* a player_status message on socket_id
HandlePlayerStatus(socket_id, status) ==
    /\ socket_id \in open
    /\ LET r == handle_player_status(Registry, Conn, socket_id, status, now) IN
        /\ SetRegistry(r.reg)
        /\ active_connections' = r.conn.active
        /\ out' = r.conn.out
        /\ ret' = Ret(r.res, NoRoom, NoPlayer)
    /\ rt' = NoRt
    /\ UNCHANGED <<open, broken, now, sending, cleanup_task>>

\* a ping message on socket_id: handle_message answers pong
HandlePing(socket_id) ==
    /\ socket_id \in open
    /\ LET conn == send_message(Conn, socket_id, Msg("pong", NoPlayer, "")) IN
        /\ active_connections' = conn.active
        /\ out' = conn.out
    /\ ret' = NoRet /\ rt' = NoRt
    /\ UNCHANGED <<rooms, player_to_room, socket_to_player, open, broken, now, sending, cleanup_task>>

\* The handlers below stop at "await websocket.send_text": the task of the
\* receive loop of socket_id is suspended inside send_message and other tasks
\* run until FinishSend resumes it.  A send_message that returns before
\* send_text (unregistered socket) does not suspend and is not a step here.

\* a ping message on socket_id, up to the send_text of the pong
BeginPing(socket_id) ==
    /\ socket_id \in open
    /\ sending[socket_id] = NoSocket
    /\ socket_id \in active_connections
    /\ sending' = [sending EXCEPT ![socket_id] = socket_id]
    /\ ret' = NoRet /\ out' = <<>> /\ rt' = NoRt
    /\ UNCHANGED <<rooms, player_to_room, socket_to_player, active_connections,
                   open, broken, now, cleanup_task>>

\* a link_cable_data message on socket_id, up to the send_text of its one
\* message (an error reply to the sender or the forward to the other player)
BeginLinkCableData(socket_id, data) ==
    /\ socket_id \in open
    /\ sending[socket_id] = NoSocket
    /\ LET r == handle_link_cable_data(Registry, Conn, socket_id, data) IN
        /\ r.res # "unbound"
        /\ r.conn.out[1].to \in active_connections
        /\ sending' = [sending EXCEPT ![socket_id] = r.conn.out[1].to]
        /\ ret' = Ret(r.res, NoRoom, NoPlayer)
    /\ out' = <<>> /\ rt' = NoRt
    /\ UNCHANGED <<rooms, player_to_room, socket_to_player, active_connections,
                   open, broken, now, cleanup_task>>

\* the send_text the task of socket_id waits on returns, or raises because the
\* target has gone: send_message then unregisters the target
FinishSend(socket_id) ==
    /\ sending[socket_id] # NoSocket
    /\ LET to == sending[socket_id]
           raised == to \notin open \/ to \in broken
       IN  /\ active_connections' = IF raised THEN active_connections \ {to}
                                    ELSE active_connections
           /\ ret' = Ret(IF raised THEN "False" ELSE "True", NoRoom, NoPlayer)
    /\ sending' = [sending EXCEPT ![socket_id] = NoSocket]
    /\ out' = <<>> /\ rt' = NoRt
    /\ UNCHANGED <<rooms, player_to_room, socket_to_player, open, broken, now, cleanup_task>>

\* websocket_endpoint accepts a connection under an id no send is still waiting
\* on: a websocket and its successor under the same id are not told apart, so
\* a send begun on the former is finished before the id is used again
ConnectFresh(socket_id) ==
    /\ \A c \in SocketIds : sending[c] # socket_id
    /\ Connect(socket_id)

\* the receive loop of socket_id ends while its task is not inside a handler
CloseIdle(socket_id) ==
    /\ sending[socket_id] = NoSocket
    /\ Close(socket_id)

\* a save_state message on socket_id
HandleSaveState(socket_id, action, blob) ==
    /\ socket_id \in open
    /\ LET r == handle_save_state(Registry, Conn, socket_id, action, blob) IN
        /\ SetRegistry(r.reg)
        /\ active_connections' = r.conn.active
        /\ out' = r.conn.out
        /\ ret' = Ret(r.res, NoRoom, NoPlayer)
    /\ rt' = NoRt
    /\ UNCHANGED <<open, broken, now, sending, cleanup_task>>

\* A collaborator clears the active flag of a room it was handed: nothing in
\* the registry writes Room.is_active, which join_room and the sweeper read.
Deactivate(room_id) ==
    /\ room_id \in DOMAIN rooms
    /\ rooms[room_id].is_active
    /\ rooms' = [rooms EXCEPT ![room_id].is_active = FALSE]
    /\ ret' = NoRet /\ out' = <<>> /\ rt' = NoRt
    /\ UNCHANGED <<player_to_room, socket_to_player, transport, now, cleanup_task>>

(* --------------------------- specifications ----------------------------- *)
\* Room membership: the registry under every sequence of the operations that
\* read or write the member lists, the room table, the player-room index and
\* last_activity.  Binding and status operations write none of these.
NextRegistry ==
    \/ Tick
    \/ \E rom \in BOOLEAN : CreateRoom(rom)
    \/ \E code \in RoomSpellings, rom \in BOOLEAN : JoinRoom(code, rom)
    \/ \E p \in PlayerIds : LeaveRoom(p)
    \/ \E code \in RoomSpellings : RemoveRoom(code)
    \/ Sweep

SpecRegistry == Init /\ [][NextRegistry]_vars

\* The same, with rooms whose active flag a collaborator has cleared.
NextInactive ==
    \/ NextRegistry
    \/ \E r \in RoomIds : Deactivate(r)

SpecInactive == Init /\ [][NextInactive]_vars

\* Room creation as called, in the registry states that the membership
\* operations produce once a room can be constructed.
NextCreate ==
    \/ NextRegistry
    \/ \E rom \in BOOLEAN : CreateRoomCall(rom)

SpecCreate == Init /\ [][NextCreate]_vars

\* at most MaxBoundPlayers player ids are in use at a time where sockets are modelled
PoolLeft == Cardinality(UsedPlayerIds(Registry)) < MaxBoundPlayers
CreateRoomB == PoolLeft /\ CreateRoom(FALSE)
JoinRoomB(code) ==
    /\ join_room(Registry, code, FALSE, now).msg = "Successfully joined room" => PoolLeft
    /\ JoinRoom(code, FALSE)

\* Connection binding: the registry under every sequence of membership and
\* binding operations.
NextBinding ==
    \/ CreateRoomB
    \/ \E code \in RoomIds : JoinRoomB(code)
    \/ \E p \in PlayerIds : LeaveRoom(p)
    \/ \E code \in RoomIds : RemoveRoom(code)
    \/ \E c \in SocketIds, p \in PlayerIds : BindConnection(c, p)
    \/ \E c \in SocketIds : UnbindConnection(c)
    \/ \E p \in PlayerIds : UpdatePlayerStatus(p, "playing")

SpecBinding == Init /\ [][NextBinding]_vars

\* The status of a player under binding, unbinding and explicit updates.
NextStatus ==
    \/ CreateRoomB
    \/ \E code \in RoomIds : JoinRoomB(code)
    \/ \E p \in PlayerIds : LeaveRoom(p)
    \/ \E c \in SocketIds, p \in PlayerIds : BindConnection(c, p)
    \/ \E c \in SocketIds : UnbindConnection(c)
    \/ \E p \in PlayerIds, status \in {"playing", "disconnected"} :
          UpdatePlayerStatus(p, status)

SpecStatus == Init /\ [][NextStatus]_vars

\* The room listing over rooms of different age, size and activity.
NextListing ==
    \/ Tick
    \/ CreateRoom(FALSE)
    \/ \E code \in RoomIds : JoinRoom(code, FALSE)
    \/ \E r \in RoomIds : Deactivate(r)
    \/ \E p \in PlayerIds : UpdatePlayerStatus(p, "disconnected")
    \/ \E limit \in 0..MaxRooms : ListAvailableRooms(limit)

SpecListing == Init /\ [][NextListing]_vars

\* The server as wired: the HTTP routes and the websocket endpoint, with
\* transports that do not fail.
Next ==
    \/ CreateRoomB
    \/ \E code \in RoomIds : JoinRoomB(code)
    \/ \E code \in RoomIds : RemoveRoom(code)
    \/ \E c \in SocketIds : Connect(c)
    \/ \E c \in SocketIds : Close(c)
    \/ \E c \in SocketIds, p \in PlayerIds \cup {NoPlayer} : HandleJoinRoom(c, p)
    \/ \E c \in SocketIds : HandleLeaveRoom(c)
    \/ \E c \in SocketIds, data \in LinkInputs : HandleLinkCableData(c, data)
    \/ \E c \in SocketIds, s \in StatusInputs : HandlePlayerStatus(c, s)
    \/ \E c \in SocketIds, kind \in MalformedKinds : ReceiveMalformed(c, kind)

Spec == Init /\ [][Next]_vars

\* The relay handlers on sockets that the registry's BindConnection has bound
\* without the dispatcher, with transports that do not fail.
NextRelay ==
    \/ CreateRoomB
    \/ \E code \in RoomIds : JoinRoomB(code)
    \/ \E c \in SocketIds : Connect(c)
    \/ \E c \in SocketIds : Close(c)
    \/ \E c \in SocketIds, p \in PlayerIds : BindConnection(c, p)
    \/ \E c \in SocketIds, data \in LinkInputs : HandleLinkCableData(c, data)
    \/ \E c \in SocketIds, s \in StatusInputs : HandlePlayerStatus(c, s)
    \/ \E c \in SocketIds : HandleLeaveRoom(c)

SpecRelay == Init /\ [][NextRelay]_vars

\* Saved games: the save_state handler next to the other handlers that answer
\* a resolvable sender only, on sockets bound by BindConnection.
NextSave ==
    \/ CreateRoomB
    \/ \E code \in RoomIds : JoinRoomB(code)
    \/ \E c \in SocketIds : Connect(c)
    \/ \E c \in SocketIds, p \in PlayerIds : BindConnection(c, p)
    \/ \E c \in SocketIds, b \in Blobs : HandleSaveState(c, "save", b)
    \/ \E c \in SocketIds : HandleSaveState(c, "load", NoSave)
    \/ \E c \in SocketIds, data \in LinkInputs : HandleLinkCableData(c, data)
    \/ \E c \in SocketIds : HandlePlayerStatus(c, "bogus")

SpecSave == Init /\ [][NextSave]_vars

\* The Connection Table with transports that break: sends to the sender (pong)
\* and to another member's socket (the link_cable_data forward).
NextTransport ==
    \/ CreateRoomB
    \/ \E code \in RoomIds : JoinRoomB(code)
    \/ \E c \in SocketIds, p \in PlayerIds : BindConnection(c, p)
    \/ \E c \in SocketIds : Connect(c)
    \/ \E c \in SocketIds : Break(c)
    \/ \E c \in SocketIds : Close(c)
    \/ \E c \in SocketIds : HandlePing(c)
    \/ \E c \in SocketIds, data \in LinkInputs : HandleLinkCableData(c, data)

SpecTransport == Init /\ [][NextTransport]_vars

\* Handler tasks that are suspended in send_text while other tasks run.
NextSends ==
    \/ CreateRoomB
    \/ \E code \in RoomIds : JoinRoomB(code)
    \/ \E c \in SocketIds, p \in PlayerIds : BindConnection(c, p)
    \/ \E c \in SocketIds : ConnectFresh(c)
    \/ \E c \in SocketIds : CloseIdle(c)
    \/ \E c \in SocketIds : BeginPing(c)
    \/ \E c \in SocketIds, data \in LinkInputs : BeginLinkCableData(c, data)
    \/ \E c \in SocketIds : FinishSend(c)

SpecSends == Init /\ [][NextSends]_vars

\* The life of the sweeper task: started, cycling, cancelled by
\* stop_cleanup_task.  The event loop runs a task that is ready, so a delivered
\* cancellation and the return of the awaiting stop_cleanup_task do happen.
NextCleanup ==
    \/ Tick
    \/ CreateRoomB
    \/ \E code \in RoomIds : JoinRoomB(code)
    \/ \E r \in RoomIds : Deactivate(r)
    \/ StartCleanupTask
    \/ CleanupCycle
    \/ \E bad \in RoomIds, done \in SUBSET RoomIds : CleanupCycleFailing(bad, done)
    \/ StopCleanupTask
    \/ CancelDelivered
    \/ StopReturns

SpecCleanup ==
    Init /\ [][NextCleanup]_vars /\ WF_vars(CancelDelivered) /\ WF_vars(StopReturns)

\* The sweeper next to membership and binding operations, with rooms whose
\* active flag a collaborator has cleared.
NextSweep ==
    \/ Tick
    \/ CreateRoomB
    \/ \E code \in RoomIds : JoinRoomB(code)
    \/ \E c \in SocketIds, p \in PlayerIds : BindConnection(c, p)
    \/ \E r \in RoomIds : Deactivate(r)
    \/ Sweep
    \/ \E bad \in RoomIds, done \in SUBSET RoomIds : SweepFailing(bad, done)

SpecSweep == Init /\ [][NextSweep]_vars

(* ------------------------------ claims ---------------------------------- *)
MemberIds(room) == {room.players[i].id : i \in DOMAIN room.players}
IdList(room) == [i \in DOMAIN room.players |-> room.players[i].id]
Range(seq) == {seq[i] : i \in DOMAIN seq}
\* the <<room, position>> pairs at which player p is a member
Occurrences(p) ==
    UNION {{<<r, i>> : i \in {j \in DOMAIN rooms[r].players : rooms[r].players[j].id = p}}
            : r \in DOMAIN rooms}
\* LeaveRoom returned a room: its last step removed a member and left another
LeaveReturnedRoom == ret.res = "" /\ ret.player = NoPlayer /\ ret.room \in DOMAIN rooms

\* C1: no room ever has more than 2 members, and a JoinRoom on a room that
\* already holds 2 members returns "Room is full" and adds no player.
C1_Capacity ==
    /\ [](\A r \in DOMAIN rooms : Len(rooms[r].players) <= max_players)
    /\ [][\A code \in RoomSpellings, rom \in BOOLEAN :
            (/\ JoinRoom(code, rom)
             /\ Upper(code) \in DOMAIN rooms
             /\ Len(rooms[Upper(code)].players) = max_players)
            => (/\ ret'.res = "Room is full"
                /\ ret'.room = NoRoom /\ ret'.player = NoPlayer
                /\ UNCHANGED <<rooms, player_to_room>>)]_vars

\* a join was refused as full while a room holds 2 members and a player id is free
C1_Witness ==
    /\ ret.res = "Room is full"
    /\ \E r \in DOMAIN rooms : Len(rooms[r].players) = max_players
    /\ HasFreshPlayer(Registry)

\* C2: in every reachable state a room's link-established flag is true if and
\* only if the room has exactly 2 members.
C2_LinkIffTwo ==
    \A r \in DOMAIN rooms :
        rooms[r].link_cable_connected <=> (Len(rooms[r].players) = 2)

\* a leave took a room from 2 members back to 1, and the flag is down again
C2_Witness ==
    /\ LeaveReturnedRoom
    /\ Len(rooms[ret.room].players) = 1
    /\ ~rooms[ret.room].link_cable_connected

\* C3: every non-empty room has exactly one member with is_host, that member is
\* first in the member list, the room's host_id is its id, the member list keeps
\* join order (members are only appended or removed), and when the host leaves
\* a room of two, host passes to the member that stays.
C3_Host ==
    /\ [](\A r \in DOMAIN rooms :
            LET ps == rooms[r].players IN
            ps # <<>> =>
                /\ Cardinality({i \in DOMAIN ps : ps[i].is_host}) = 1
                /\ ps[1].is_host
                /\ rooms[r].host_id = ps[1].id)
    /\ [][\A r \in DOMAIN rooms \cap DOMAIN rooms' :
            LET a == IdList(rooms[r])
                b == IdList(rooms'[r])
            IN  \/ b = a
                \/ \E x \in PlayerIds \ Range(a) : b = Append(a, x)
                \/ \E x \in Range(a) : b = SelectSeq(a, LAMBDA y : y # x)]_vars
    /\ [][\A p \in PlayerIds :
            (/\ LeaveRoom(p)
             /\ p \in DOMAIN player_to_room
             /\ player_to_room[p] \in DOMAIN rooms
             /\ rooms[player_to_room[p]].host_id = p
             /\ Len(rooms[player_to_room[p]].players) = 2)
            => LET r == player_to_room[p] IN
               /\ r \in DOMAIN rooms'
               /\ IdList(rooms'[r]) = <<rooms[r].players[2].id>>
               /\ rooms'[r].host_id = rooms[r].players[2].id
               /\ rooms'[r].players[1].is_host]_vars

\* the creator (player 1) of the only room has left it and the joiner is host
C3_Witness ==
    /\ LeaveReturnedRoom
    /\ DOMAIN rooms = {ret.room}
    /\ IdList(rooms[ret.room]) = <<2>>
    /\ rooms[ret.room].host_id = 2
    /\ rooms[ret.room].players[1].is_host

\* C4: no room of the registry has zero members, and the LeaveRoom that removes
\* the last member deletes the room in that step, returns None, and get_room
\* for its code then finds nothing.
C4_NoEmptyRoom ==
    /\ [](\A r \in DOMAIN rooms : rooms[r].players # <<>>)
    /\ [][\A p \in PlayerIds :
            (/\ LeaveRoom(p)
             /\ p \in DOMAIN player_to_room
             /\ player_to_room[p] \in DOMAIN rooms
             /\ MemberIds(rooms[player_to_room[p]]) = {p})
            => (/\ player_to_room[p] \notin DOMAIN rooms'
                /\ ret'.room = NoRoom
                /\ get_room(Registry', player_to_room[p]) = NoRoom
                /\ get_room(Registry', LowerSpelling(player_to_room[p][2])) = NoRoom)]_vars

\* the last member of a room has left: LeaveRoom returned None, one room is gone
\* and another is still there
C4_Witness ==
    /\ ret = Ret("", NoRoom, NoPlayer)
    /\ DOMAIN rooms = {RoomId(2)}
    /\ DOMAIN player_to_room # {}

\* C5: the player-room index has an entry for exactly the players that are
\* members of a room, each entry names a room of the registry that contains the
\* player, and no player id is a member twice (of two rooms, or of one).
C5_PlayerIndex ==
    \A p \in PlayerIds :
        /\ Cardinality(Occurrences(p)) <= 1
        /\ (p \in DOMAIN player_to_room) <=> (Occurrences(p) # {})
        /\ p \in DOMAIN player_to_room =>
              /\ player_to_room[p] \in DOMAIN rooms
              /\ p \in MemberIds(rooms[player_to_room[p]])

\* a member has left a room that stays, next to a second room
C5_Witness ==
    /\ LeaveReturnedRoom
    /\ Cardinality(DOMAIN rooms) = 2
    /\ Cardinality(DOMAIN player_to_room) = 2
    /\ PlayerIds \ DOMAIN player_to_room # {}

\* C10: join_room answers "Room not found" when no room has the upper-cased
\* code, else "Room is no longer active" when the room's active flag is false,
\* else "Room is full" when it holds 2 members; each of these is a returned
\* value (no room, no player) and leaves the rooms, both indexes and every
\* room's last_activity as they were.
C10_JoinErrors ==
    [][\A code \in RoomSpellings, rom \in BOOLEAN :
        JoinRoom(code, rom) =>
            LET key == Upper(code)
                found == key \in DOMAIN rooms
            IN  /\ ~found => ret'.res = "Room not found"
                /\ (found /\ ~rooms[key].is_active)
                      => ret'.res = "Room is no longer active"
                /\ (found /\ rooms[key].is_active
                          /\ Len(rooms[key].players) >= max_players)
                      => ret'.res = "Room is full"
                /\ (found /\ rooms[key].is_active
                          /\ Len(rooms[key].players) < max_players)
                      => ret'.res = "Successfully joined room"
                /\ ret'.res # "Successfully joined room"
                      => (/\ ret'.room = NoRoom /\ ret'.player = NoPlayer
                          /\ UNCHANGED <<rooms, player_to_room, socket_to_player>>)]_vars

\* a join was refused as inactive while every room is inactive, full and was
\* last active before the current hour
C10_Witness ==
    /\ ret.res = "Room is no longer active"
    /\ rooms # EmptyDict
    /\ \A r \in DOMAIN rooms :
          /\ ~rooms[r].is_active
          /\ Len(rooms[r].players) = max_players
          /\ rooms[r].last_activity < now

\* the member record of player p (p is a member of exactly one room)
MemberRecord(p) ==
    LET o == CHOOSE o \in Occurrences(p) : TRUE IN rooms[o[1]].players[o[2]]
RoomOf(p) == (CHOOSE o \in Occurrences(p) : TRUE)[1]
\* socket c resolves, through the socket-player index, to a member of a room
Resolves(c) ==
    /\ c \in OKeys(socket_to_player)
    /\ Occurrences(OGet(socket_to_player, c)) # {}

\* C6: the socket-player index contains the entry c -> p exactly when p is a
\* member of some room and p's socket_id is c.
C6_SocketIndex ==
    \A c \in SocketIds, p \in PlayerIds :
        (OGet(socket_to_player, c) = p)
            <=> (Occurrences(p) # {} /\ MemberRecord(p).socket_id = c)

\* C7: BindConnection(c, p) for a member p followed at once by
\* UnbindConnection(c) returns p and its room, leaves p a member of that room
\* with status disconnected and no socket_id, leaves no index entry for c, and
\* leaves membership, host, link-established and the player-room index as they
\* were before the bind.
C7_RoundTrip ==
    rt.st = "done" =>
        /\ rt.room # NoRoom
        /\ get_player_room(Registry, rt.player) = rt.room
        /\ Occurrences(rt.player) # {}
        /\ RoomOf(rt.player) = rt.room
        /\ MemberRecord(rt.player).status = "disconnected"
        /\ MemberRecord(rt.player).socket_id = NoSocket
        /\ rt.sock \notin OKeys(socket_to_player)
        /\ Membership(Registry) = rt.before
        /\ ret = Ret("", rt.room, rt.player)

\* a round trip is complete on a player that an earlier socket is still
\* indexed to, in a room of two
C7_Witness ==
    /\ rt.st = "done"
    /\ \E i \in DOMAIN socket_to_player : socket_to_player[i][2] = rt.player
    /\ Len(rooms[rt.room].players) = 2

\* C8: a link_cable_data message from a socket that resolves to a room member,
\* handled while the room is not link-established or while no other member has
\* a socket_id, sends exactly one message: an error to the sender (delivered
\* when the sender is registered); nothing is forwarded.
C8_LinkErrors ==
    [][\A c \in SocketIds :
        (/\ \E data \in LinkInputs : HandleLinkCableData(c, data)
         /\ Resolves(c)
         /\ LET p == OGet(socket_to_player, c)
                room == rooms[RoomOf(p)]
            IN  \/ ~room.link_cable_connected
                \/ \A i \in DOMAIN room.players :
                      room.players[i].id = p \/ room.players[i].socket_id = NoSocket)
        => (/\ Len(out') = 1
            /\ out'[1].to = c
            /\ out'[1].msg.type = "error"
            /\ c \in active_connections => out'[1].res = "sent")]_vars

\* the sender got "No other player connected": its room is link-established
\* and the other member has no socket
C8_Witness ==
    /\ Len(out) = 1
    /\ out[1].msg = Msg("error", NoPlayer, "No other player connected")
    /\ out[1].res = "sent"
    /\ Resolves(out[1].to)
    /\ rooms[RoomOf(OGet(socket_to_player, out[1].to))].link_cable_connected

\* the socket_ids of the members of a room that have one, in member order
BoundSockets(room) ==
    LET with == SelectSeq(room.players, LAMBDA m : m.socket_id # NoSocket)
    IN  [i \in DOMAIN with |-> with[i].socket_id]

\* C9: a player_status message with a recognized status name from a socket that
\* resolves to a room member sets that member's status and sends
\* player_status_updated once to the socket of every member of the room that
\* has one, the sender's included, and to no one else; each is delivered when
\* that socket is registered, and with one of two members unbound exactly one
\* message is sent and delivered.
C9_StatusBroadcast ==
    [][\A c \in SocketIds :
        (HandlePlayerStatus(c, "Playing") /\ Resolves(c))
        => LET p == OGet(socket_to_player, c)
               r == RoomOf(p)
               i == (CHOOSE o \in Occurrences(p) : TRUE)[2]
           IN  /\ r \in DOMAIN rooms'
               /\ rooms'[r].players[i].id = p
               /\ rooms'[r].players[i].status = "playing"
               /\ [k \in DOMAIN out' |-> out'[k].to] = BoundSockets(rooms'[r])
               /\ \A k \in DOMAIN out' :
                     /\ out'[k].msg = Msg("player_status_updated", p, "Playing")
                     /\ out'[k].to \in active_connections => out'[k].res = "sent"
               /\ rooms[r].players[i].socket_id = c
                     => \E k \in DOMAIN out' : out'[k].to = c
               /\ (/\ Len(rooms[r].players) = 2
                   /\ rooms[r].players[i].socket_id = c
                   /\ \A j \in DOMAIN rooms[r].players :
                         j # i => rooms[r].players[j].socket_id = NoSocket)
                     => (Len(out') = 1 /\ out'[1].res = "sent")]_vars


\* the sockets the socket-player index maps to player p
SocketsOf(od, p) == {od[i][1] : i \in {j \in DOMAIN od : od[j][2] = p}}

\* C11: after one sweeper cycle every room that was older than the TTL or
\* inactive at its start is gone (get_room finds nothing) together with the
\* player-room and socket-player index entries of all its members, and every
\* other room is unchanged.
C11_SweepEvicts ==
    [][Sweep =>
        LET gone == rooms_to_remove(Registry, now) IN
        /\ \A r \in gone :
              /\ r \notin DOMAIN rooms'
              /\ get_room(Registry', r) = NoRoom
              /\ \A p \in MemberIds(rooms[r]) :
                    /\ p \notin DOMAIN player_to_room'
                    /\ SocketsOf(socket_to_player', p) = {}
        /\ \A r \in DOMAIN rooms \ gone :
              r \in DOMAIN rooms' /\ rooms'[r] = rooms[r]]_vars

\* C12: no malformed inbound message (unparseable text, a non-mapping payload,
\* a wrongly typed field) closes or unregisters the receiving connection: the
\* failure becomes one generic error reply to the sender, and the connection
\* stays open, registered and bound to its player.
C12_MalformedKeepsConnection ==
    [][\A c \in SocketIds, kind \in MalformedKinds :
        ReceiveMalformed(c, kind) =>
            /\ c \in open'
            /\ c \in active_connections => c \in active_connections'
            /\ OGet(socket_to_player', c) = OGet(socket_to_player, c)
            /\ UNCHANGED <<rooms, player_to_room>>
            /\ Len(out') = 1
            /\ out'[1].to = c
            /\ out'[1].msg.type = "error"]_vars

\* C13: every dispatcher-level error -- a link_cable_data, player_status or
\* save_state message from a socket that resolves to no player, or a
\* player_status with an unrecognized status name -- sends exactly one message:
\* an error to the offending socket; nothing goes to any other socket and the
\* registry is unchanged.
C13_ErrorsAreUnicast ==
    [][\A c \in SocketIds :
        (\/ /\ ~Resolves(c)
            /\ \/ \E data \in LinkInputs : HandleLinkCableData(c, data)
               \/ HandlePlayerStatus(c, "bogus")
               \/ HandleSaveState(c, "load", NoSave)
               \/ \E b \in Blobs : HandleSaveState(c, "save", b)
         \/ Resolves(c) /\ HandlePlayerStatus(c, "bogus"))
        => (/\ Len(out') = 1
            /\ out'[1].to = c
            /\ out'[1].msg.type = "error"
            /\ UNCHANGED <<rooms, player_to_room, socket_to_player>>)]_vars

\* the sockets the messages of the given type in o were addressed to, in order
TargetsOf(o, type) ==
    LET sel == SelectSeq(o, LAMBDA m : m.msg.type = type)
    IN  [k \in DOMAIN sel |-> sel[k].to]
\* the socket_ids of the members of a room other than socket c, in member order
OtherSockets(room, c) ==
    LET with == SelectSeq(room.players,
                          LAMBDA m : m.socket_id # NoSocket /\ m.socket_id # c)
    IN  [k \in DOMAIN with |-> with[k].socket_id]
\* every send of o to a registered socket was delivered
Delivered(o) ==
    \A k \in DOMAIN o : o[k].to \in active_connections => o[k].res = "sent"

\* C14: a join_room message whose player_id is a room member binds the sending
\* socket to that player, sends room_joined to the sender and player_joined to
\* the socket of every other bound member and not to the sender (each
\* delivered when its socket is registered); with a missing player_id or a
\* failed bind it sends one error to the sender, nothing else, and changes no
\* registry state.
C14_JoinMessage ==
    [][\A c \in SocketIds, p \in PlayerIds \cup {NoPlayer} :
        HandleJoinRoom(c, p) =>
            IF p # NoPlayer /\ Occurrences(p) # {}
            THEN LET o == CHOOSE x \in Occurrences(p) : TRUE IN
                 /\ OGet(socket_to_player', c) = p
                 /\ rooms'[o[1]].players[o[2]].socket_id = c
                 /\ TargetsOf(out', "room_joined") = <<c>>
                 /\ TargetsOf(out', "player_joined") = OtherSockets(rooms'[o[1]], c)
                 /\ Len(out') = 1 + Len(OtherSockets(rooms'[o[1]], c))
                 /\ Delivered(out')
            ELSE /\ Len(out') = 1
                 /\ out'[1].to = c
                 /\ out'[1].msg.type = "error"
                 /\ Delivered(out')
                 /\ UNCHANGED <<rooms, player_to_room, socket_to_player>>]_vars

\* C15: when a socket that resolves to a room member sends leave_room or
\* closes, its index entry goes, its player stays a member with status
\* disconnected and no socket_id, and exactly one notice (player_left for
\* leave_room, player_disconnected for a close) goes to the socket of every
\* other bound member (delivered when that socket is registered) and none to
\* the leaving socket; a close of a socket that no longer resolves, as after
\* its leave_room, sends nothing.
C15_LeaveNotice ==
    [][\A c \in SocketIds :
        /\ ((HandleLeaveRoom(c) \/ Close(c)) /\ Resolves(c)) =>
              LET p == OGet(socket_to_player, c)
                  o == CHOOSE x \in Occurrences(p) : TRUE
                  notice == IF c \in open' THEN "player_left" ELSE "player_disconnected"
              IN  /\ c \notin OKeys(socket_to_player')
                  /\ o[1] \in DOMAIN rooms'
                  /\ rooms'[o[1]].players[o[2]].id = p
                  /\ rooms'[o[1]].players[o[2]].status = "disconnected"
                  /\ rooms'[o[1]].players[o[2]].socket_id = NoSocket
                  /\ TargetsOf(out', notice) = OtherSockets(rooms'[o[1]], c)
                  /\ Len(out') = Len(OtherSockets(rooms'[o[1]], c))
                  /\ Delivered(out')
        /\ (Close(c) /\ ~Resolves(c)) => out' = <<>>]_vars

\* C16: CreateRoom always succeeds: in every registry state it returns a new
\* room, under a new code, whose only member is the creator with is_host and
\* no link, registers the creator in the player-room index, and the creator's
\* status is ready when a rom name was supplied and connecting otherwise.
C16_CreateSucceeds ==
    [][\A rom \in BOOLEAN :
        CreateRoomCall(rom) =>
            /\ ret'.res = "ok"
            /\ ret'.room \in DOMAIN rooms' \ DOMAIN rooms
            /\ LET room == rooms'[ret'.room] IN
                /\ IdList(room) = <<ret'.player>>
                /\ room.players[1].is_host
                /\ room.host_id = ret'.player
                /\ ~room.link_cable_connected
                /\ room.players[1].status = InitialStatus(rom)
            /\ ret'.player \in DOMAIN player_to_room'
            /\ player_to_room'[ret'.player] = ret'.room]_vars

\* the saved blob of player p (NoSave: p is no member, or has saved nothing)
SavedBy(p) == IF Occurrences(p) = {} THEN NoSave ELSE MemberRecord(p).save_state

\* C17: for a socket that resolves to a member p, a save_state load replies
\* success with the blob of p's most recent save, or failure when p has saved
\* nothing, and a save stores the blob on p and replies success; each reply is
\* the only message and goes to the sender (delivered when it is registered);
\* a save changes nothing but p's stored blob.  The stored blob is the most
\* recent save: a member's blob changes only by a save through a socket that
\* resolves to it, and a new member starts with none.
C17_SaveLoad ==
    [][/\ \A c \in SocketIds :
            (HandleSaveState(c, "load", NoSave) /\ Resolves(c)) =>
                LET p == OGet(socket_to_player, c) IN
                /\ Len(out') = 1
                /\ out'[1].to = c
                /\ out'[1].msg = IF SavedBy(p) # NoSave
                                 THEN SaveMsg("load", TRUE, SavedBy(p))
                                 ELSE SaveMsg("load", FALSE, NoSave)
                /\ Delivered(out')
                /\ UNCHANGED <<rooms, player_to_room, socket_to_player>>
       /\ \A c \in SocketIds, b \in Blobs :
            (HandleSaveState(c, "save", b) /\ Resolves(c)) =>
                LET p == OGet(socket_to_player, c)
                    o == CHOOSE x \in Occurrences(p) : TRUE
                IN  /\ Len(out') = 1
                    /\ out'[1].to = c
                    /\ out'[1].msg = SaveMsg("save", TRUE, NoSave)
                    /\ Delivered(out')
                    /\ rooms' = [rooms EXCEPT ![o[1]].players[o[2]].save_state = b]
                    /\ UNCHANGED <<player_to_room, socket_to_player, active_connections>>
       /\ \A p \in PlayerIds :
            SavedBy(p)' # SavedBy(p) =>
                \E c \in SocketIds, b \in Blobs :
                    /\ HandleSaveState(c, "save", b)
                    /\ OGet(socket_to_player, c) = p
                    /\ SavedBy(p)' = b]_vars

\* a load was answered with the second blob, delivered, after the sender had
\* saved, while the other member of its room holds the first blob
C17_Witness ==
    /\ Len(out) = 1
    /\ out[1].msg = SaveMsg("load", TRUE, 2)
    /\ out[1].res = "sent"
    /\ Resolves(out[1].to)
    /\ SavedBy(OGet(socket_to_player, out[1].to)) = 2
    /\ \E q \in PlayerIds :
          /\ Occurrences(q) # {}
          /\ RoomOf(q) = RoomOf(OGet(socket_to_player, out[1].to))
          /\ SavedBy(q) = 1

\* C18: a send to a registered socket whose send_text raises returns False and
\* unregisters the socket; a send to an unregistered socket returns False
\* without a delivery attempt and changes nothing; an unregistered socket
\* becomes registered again only by a new connect, so every later send to it
\* returns False.
C18_SendFailure ==
    [][/\ \A c \in SocketIds :
            ((HandlePing(c) \/ \E data \in LinkInputs : HandleLinkCableData(c, data))
             /\ Len(out') = 1) =>
                LET to == out'[1].to IN
                /\ (to \in active_connections /\ to \in broken) =>
                      /\ out'[1].res = "failed"
                      /\ active_connections' = active_connections \ {to}
                /\ (to \in active_connections /\ to \notin broken) =>
                      /\ out'[1].res = "sent"
                      /\ active_connections' = active_connections
                /\ to \notin active_connections =>
                      /\ out'[1].res = "unregistered"
                      /\ active_connections' = active_connections
                /\ UNCHANGED <<rooms, player_to_room, socket_to_player, open, broken>>
       /\ \A c \in SocketIds :
            (c \notin active_connections /\ c \in active_connections') => Connect(c)]_vars

\* a send to a socket that is open, broken and already unregistered returned
\* False without a delivery attempt
C18_Witness ==
    /\ Len(out) = 1
    /\ out[1].res = "unregistered"
    /\ out[1].to \in open \cap broken
    /\ out[1].to \notin active_connections

\* C20: when the removal of one collected room fails during a sweeper cycle,
\* every other room collected in that cycle is still removed in that cycle.
C20_FailureIsolated ==
    [][\A bad \in RoomIds, done \in SUBSET RoomIds :
          SweepFailing(bad, done) =>
              \A r \in rooms_to_remove(Registry, now) \ {bad} : r \notin DOMAIN rooms']_vars

\* C19: under any interleaving of handler tasks and close handlers, two sends
\* to the same socket are never in progress at the same time (which the
\* ordering of the messages delivered to one socket rests on).
C19_OneSendAtATime ==
    \A c1, c2 \in SocketIds :
        (c1 # c2 /\ sending[c1] # NoSocket) => sending[c1] # sending[c2]

\* C21: once the sweeper is cancelled, in its sleep between cycles, in its
\* back-off sleep or before its first cycle, the loop ends and
\* stop_cleanup_task returns, and from the cancellation on no room leaves the
\* registry through the sweeper.
C21_Cancellation ==
    /\ [][cleanup_task.cancel # "no" =>
              /\ DOMAIN rooms \subseteq DOMAIN rooms'
              /\ ~CleanupCycle
              /\ \A bad \in RoomIds, done \in SUBSET RoomIds : ~CleanupCycleFailing(bad, done)]_vars
    /\ [][StopReturns => cleanup_task' = NoTask /\ ret'.res = "stopped"]_vars
    /\ (cleanup_task.cancel = "requested") ~> (cleanup_task = NoTask)

\* stop_cleanup_task has returned after a cancellation while a room the next
\* cycle would have removed is still in the registry
C21_Witness ==
    /\ cleanup_task = NoTask
    /\ ret.res = "stopped"
    /\ rooms_to_remove(Registry, now) # {}

\* C22: a link_cable_data message from a socket that resolves to a member of a
\* link-established room whose other member has a socket_id sends exactly one
\* message, to that other member's socket and not to the sender, carrying the
\* action, payload and timestamp of the data as given and the sender; the
\* registry is unchanged.
C22_Relay ==
    [][\A c \in SocketIds, data \in LinkInputs :
        (/\ HandleLinkCableData(c, data)
         /\ Resolves(c)
         /\ LET p == OGet(socket_to_player, c)
                room == rooms[RoomOf(p)]
            IN  /\ room.link_cable_connected
                /\ \E i \in DOMAIN room.players :
                      room.players[i].id # p /\ room.players[i].socket_id # NoSocket)
        => LET p == OGet(socket_to_player, c)
               room == rooms[RoomOf(p)]
               other == CHOOSE i \in DOMAIN room.players : room.players[i].id # p
           IN  /\ Len(out') = 1
               /\ out'[1].to = room.players[other].socket_id
               /\ out'[1].to # c
               /\ out'[1].msg.type = "link_cable_data"
               /\ out'[1].msg.about = p
               /\ \A k \in DOMAIN data : out'[1].msg[k] = data[k]
               /\ UNCHANGED <<rooms, player_to_room, socket_to_player>>]_vars

\* C23: BindConnection(c, p) returns False and changes nothing when p is not a
\* member of any room; otherwise it returns True, maps c to p, writes c into p
\* and sets p's status to connected whatever it was; a player's status becomes
\* disconnected only by UnbindConnection or by an update to that status.
C23_Bind ==
    [][/\ \A c \in SocketIds, p \in PlayerIds :
            BindConnection(c, p) =>
                IF Occurrences(p) = {}
                THEN /\ ret'.res = "False"
                     /\ UNCHANGED <<rooms, player_to_room, socket_to_player>>
                ELSE LET o == CHOOSE x \in Occurrences(p) : TRUE IN
                     /\ ret'.res = "True"
                     /\ OGet(socket_to_player', c) = p
                     /\ rooms'[o[1]].players[o[2]].id = p
                     /\ rooms'[o[1]].players[o[2]].socket_id = c
                     /\ rooms'[o[1]].players[o[2]].status = "connected"
       /\ \A p \in PlayerIds :
            (StatusIn(Registry, p) # "disconnected" /\ StatusIn(Registry, p)' = "disconnected")
            => \/ \E c \in SocketIds : UnbindConnection(c)
               \/ UpdatePlayerStatus(p, "disconnected")]_vars

\* a bind has just returned True for a player whose status was disconnected
C23_Witness ==
    /\ rt.st = "bound"
    /\ rt.was = "disconnected"
    /\ ret.res = "True"
    /\ StatusIn(Registry, rt.player) = "connected"

\* the rooms that are active and hold fewer than 2 members
Listable == {r \in DOMAIN rooms : rooms[r].is_active /\ Len(rooms[r].players) < 2}

\* C24: ListAvailableRooms(limit) returns rooms that are active and hold fewer
\* than 2 members, each once, newest created first, all of them when they are
\* at most limit and otherwise limit of them with no omitted room newer than a
\* listed one; it changes no registry state; a room with a disconnected
\* second member is not listed.
C24_Listing ==
    [][\A limit \in 0..MaxRooms :
        ListAvailableRooms(limit) =>
            LET list == ret'.rooms IN
            /\ Range(list) \subseteq Listable
            /\ \A i, j \in DOMAIN list : i # j => list[i] # list[j]
            /\ \A i, j \in DOMAIN list :
                  i < j => rooms[list[i]].created_at >= rooms[list[j]].created_at
            /\ Len(list) = IF Cardinality(Listable) < limit
                           THEN Cardinality(Listable) ELSE limit
            /\ \A r \in Listable \ Range(list), i \in DOMAIN list :
                  rooms[r].created_at <= rooms[list[i]].created_at
            /\ \A r \in DOMAIN rooms :
                  (Len(rooms[r].players) = 2
                   /\ rooms[r].players[2].status = "disconnected") => r \notin Range(list)
            /\ UNCHANGED <<rooms, player_to_room, socket_to_player>>]_vars

\* a listing with limit 1 returned the newer of two listable rooms of
\* different age
C24_Witness ==
    /\ ret.res = "rooms"
    /\ ret.limit = 1
    /\ Len(ret.rooms) = 1
    /\ Cardinality(Listable) = 2
    /\ \E r \in Listable : rooms[r].created_at < rooms[ret.rooms[1]].created_at

\* a listing left out an active room whose second member is disconnected
C24_DisconnectedCase ==
    /\ ret.res = "rooms"
    /\ \E r \in DOMAIN rooms :
          /\ rooms[r].is_active
          /\ Len(rooms[r].players) = 2
          /\ rooms[r].players[2].status = "disconnected"
          /\ r \notin Range(ret.rooms)
    /\ ret.rooms # <<>>

\* the messages sent on behalf of a room to its members
RoomMessageTypes ==
    {"link_cable_data", "player_joined", "player_left", "player_disconnected",
     "player_status_updated"}

\* every room message among the sends o that was delivered went to a socket
\* that the socket-player index od resolves to a member of room r
OnlyToMembersOf(o, od, r) ==
    \A k \in DOMAIN o :
        (o[k].res = "sent" /\ o[k].msg.type \in RoomMessageTypes)
        => /\ o[k].to \in OKeys(od)
           /\ r \in DOMAIN rooms'
           /\ OGet(od, o[k].to) \in MemberIds(rooms'[r])

\* C25: a message relayed or broadcast on behalf of a room is delivered only
\* to sockets that the socket-player index resolves to a member of that room,
\* after any sequence of join_room messages, one socket joining as several
\* players included.
C25_Isolation ==
    [][/\ \A c \in SocketIds :
            (/\ Resolves(c)
             /\ \/ \E data \in LinkInputs : HandleLinkCableData(c, data)
                \/ \E status \in StatusInputs : HandlePlayerStatus(c, status)
                \/ HandleLeaveRoom(c)
                \/ Close(c))
            => OnlyToMembersOf(out', socket_to_player',
                               RoomOf(OGet(socket_to_player, c)))
       /\ \A c \in SocketIds, p \in PlayerIds :
            (HandleJoinRoom(c, p) /\ Occurrences(p) # {})
            => OnlyToMembersOf(out', socket_to_player', RoomOf(p))]_vars

\* C26: in every reachable state every socket_id recorded on a room member is
\* registered in active_connections, after transport closes and after failed
\* sends too.
C26_BoundIsRegistered ==
    \A r \in DOMAIN rooms :
        \A i \in DOMAIN rooms[r].players :
            rooms[r].players[i].socket_id # NoSocket
            => rooms[r].players[i].socket_id \in active_connections

====
